---- MODULE Spec2Model ----
\* Model of the video upload handler of handler_upload_video.go:
\* handlerUploadVideo, getVideoAspectRatio and processVideoForFastStart.
\* Strings that the code formats (object keys, URLs) are sequences of
\* one-character strings, so that formatting is computed, not assumed.
EXTENDS Integers, Sequences, FiniteSets, TLC

\* ------------------------------------------------------------------ bounds
\* Temp-file name suffixes os.CreateTemp can draw from.
MaxNames == 2
\* Largest width and height of the geometries enumerated for classification.
MaxWidth == 170
MaxHeight == 91

\* ------------------------------------------------------- program constants
\* http.MaxBytesReader(w, r.Body, 1<<30)
Ceiling == 1073741824
\* make([]byte, 16)
RandLen == 16

\* ---------------------------------------------------------------- requests
Reqs == {"r1", "r2"}

\* Values of r.PathValue("videoID"): three well-formed ids and a malformed one.
VideoIDStrings == {"v1", "v2", "v3", "not-a-uuid"}

\* uuid.Parse: a well-formed string yields the id, anything else an error.
uuidParse(s) == IF s \in {"v1", "v2", "v3"} THEN [err |-> FALSE, id |-> s] ELSE [err |-> TRUE, id |-> "nil"]

\* Authorization headers: absent, a token that does not validate (bad
\* signature or expired), and valid tokens of two principals.
AuthHeaders == {"absent", "Bearer bad", "Bearer expired", "Bearer tok-u1", "Bearer tok-u2"}

\* auth.GetBearerToken: fails when the header is missing.
GetBearerToken(h) == IF h = "absent" THEN [err |-> TRUE, token |-> ""] ELSE [err |-> FALSE, token |-> h]

\* auth.ValidateJWT: resolves a valid token to its principal.
ValidateJWT(token) ==
  CASE token = "Bearer tok-u1" -> [err |-> FALSE, userId |-> "u1"]
    [] token = "Bearer tok-u2" -> [err |-> FALSE, userId |-> "u2"]
    [] OTHER -> [err |-> TRUE, userId |-> "nil"]

\* Content-Type headers of the uploaded part: the media type as written and
\* the shape of the parameter list after it.
ContentTypes ==
  { [base |-> "video/mp4", params |-> "none"],
    [base |-> "VIDEO/MP4", params |-> "none"],
    [base |-> "video/mp4", params |-> "valid"],
    [base |-> "video/mp4", params |-> "invalid"],
    [base |-> "video/mp4", params |-> "duplicate"],
    [base |-> "video/quicktime", params |-> "none"],
    [base |-> "video/", params |-> "none"],
    [base |-> "", params |-> "none"] }

\* strings.ToLower on the media types above.
ToLower(s) == IF s = "VIDEO/MP4" THEN "video/mp4" ELSE s

\* mime.ParseMediaType: an empty or malformed media type and a duplicate
\* parameter give ("", err); a malformed parameter gives the media type
\* together with ErrInvalidMediaParameter.
ParseMediaType(v) ==
  CASE v.base = "" -> [mediatype |-> "", err |-> TRUE]
    [] v.base = "video/" -> [mediatype |-> "", err |-> TRUE]
    [] v.params = "invalid" -> [mediatype |-> ToLower(v.base), err |-> TRUE]
    [] v.params = "duplicate" -> [mediatype |-> "", err |-> TRUE]
    [] OTHER -> [mediatype |-> ToLower(v.base), err |-> FALSE]

\* Sizes in bytes of the uploaded part.
PartSizes == {1, Ceiling, Ceiling + 1}

FileNames == {"a.mp4", "../../etc/passwd"}

\* The multipart form of a request: no "video" field, or one part.
Forms == {[present |-> FALSE, filename |-> "", contentType |-> [base |-> "", params |-> "none"], size |-> 0]}
         \cup {[present |-> TRUE, filename |-> f, contentType |-> c, size |-> n] : f \in FileNames, c \in ContentTypes, n \in PartSizes}

\* The reader r.FormFile parses: the request's own body. uploadLimit wraps
\* r.Body but is never assigned back to r.Body.
FormFileReader == "r.Body"

\* Bytes a reader hands over of a body offering n bytes: the limited reader
\* fails past the ceiling, the raw body hands over everything.
ReadBody(reader, n) ==
  IF reader = "uploadLimit" /\ n > Ceiling THEN [err |-> TRUE, n |-> 0] ELSE [err |-> FALSE, n |-> n]

\* ---------------------------------------------------------------- scenarios
\* "full": one request, every input and every failure of the environment.
\* "pair": two requests at once, of two owners, well-formed uploads; the
\* remux can leave an empty output and the two stores can fail.
\* "classify": one well-formed upload, staged files of every geometry up to
\* MaxWidth x MaxHeight.
Clients(sc) == IF sc = "pair" THEN Reqs ELSE {"r1"}

MaxInFlight(sc) == Cardinality(Clients(sc))

VideoIDStringsOf(sc) ==
  CASE sc = "full" -> VideoIDStrings
    [] sc = "pair" -> {"v1", "v2"}
    [] OTHER -> {"v1"}

AuthHeadersOf(sc) ==
  CASE sc = "full" -> AuthHeaders
    [] sc = "pair" -> {"Bearer tok-u1", "Bearer tok-u2"}
    [] OTHER -> {"Bearer tok-u1"}

FormsOf(sc) ==
  CASE sc = "full" -> Forms
    [] sc = "pair" -> {f \in Forms : f.present /\ f.contentType = [base |-> "video/mp4", params |-> "none"] /\ f.size = 1}
    [] OTHER -> {f \in Forms : f.present /\ f.contentType = [base |-> "video/mp4", params |-> "none"] /\ f.size = 1 /\ f.filename = "a.mp4"}

\* What each client sends. In "pair" the first client is the owner of v1
\* uploading "a.mp4"; the second is either principal, targets either record
\* and uploads under the other file name (the two clients are
\* interchangeable, so nothing is lost by telling them apart).
SendsPath(sc, r, s, h) == (sc = "pair" /\ r = "r1") => (s = "v1" /\ h = "Bearer tok-u1")

SendsFile(sc, r, f) == sc = "pair" => (f.filename = IF r = "r1" THEN "a.mp4" ELSE "../../etc/passwd")

\* Whether the environment's operations (file system, entropy source,
\* object store, metadata store) can fail in the scenario.
Faults(sc) == sc = "full"

\* Whether the object store and the metadata store can fail in the scenario.
StoreFaults(sc) == sc \in {"full", "pair"}

\* ------------------------------------------------------------------- paths
Names == 1..MaxNames

\* temp.Name(): the pattern "tubely-upload.mp4" followed by a random suffix.
TempPath(n) == [n |-> n, ext |-> ""]

\* output := filePath + ".processing"
ProcessingPath(filePath) == [filePath EXCEPT !.ext = @ \o ".processing"]

NoPath == [n |-> 0, ext |-> ""]

\* The disk is a set of files, each a path with a size.
Exists(d, p) == \E f \in d : f.path = p

SizeOf(d, p) == (CHOOSE f \in d : f.path = p).size

RemoveFile(d, p) == {f \in d : f.path # p}

WriteFile(d, p, size) == RemoveFile(d, p) \cup {[path |-> p, size |-> size]}

\* ------------------------------------------------------------------- state
VARIABLES
  pc,          \* position of each request in handlerUploadVideo
  input,       \* the request as received: path value, Authorization, form
  loc,         \* the handler's local variables
  defers,      \* the stack of deferred calls, last registered first
  response,    \* the status written to the ResponseWriter, "none" before
  disk,        \* local files: a set of [path, size]
  open,        \* open file handles: <<request, handle name>>
  db,          \* video records by id
  bucket,      \* keys stored in the object store
  trace,       \* per request, the external operations it performed
  scenario     \* which requests and inputs the environment produces

vars == <<pc, input, loc, defers, response, disk, open, db, bucket, trace, scenario>>

\* Before ffprobe has run; afterwards, what it gave (see ProbeOutput).
NoProbe == [run |-> "none", json |-> "none", streams |-> <<>>]

\* Before ffmpeg has run; afterwards, how it exited and the size os.Stat
\* found for the output (-1 when there was no file to stat).
NoRun == [exit |-> "none", statSize |-> -1]

NoBytes == <<>>

NoKey == <<>>

NoIn == [videoIDString |-> "", authorization |-> "absent", form |-> [present |-> FALSE, filename |-> "", contentType |-> [base |-> "", params |-> "none"], size |-> 0]]

NoLoc ==
  [ videoID |-> "nil", userId |-> "nil", video |-> [ID |-> "nil", UserID |-> "nil", VideoURL |-> NoKey],
    mediaType |-> "", temp |-> NoPath, randBytes |-> NoBytes, probe |-> NoProbe,
    ratio |-> "", prefix |-> "", ffmpeg |-> NoRun, fastStart |-> NoPath, key |-> NoKey ]

\* The metadata store before any upload: two records of two owners and no
\* stored reference.
InitDB ==
  [ v \in {"v1", "v2"} |-> [ID |-> v, UserID |-> IF v = "v1" THEN "u1" ELSE "u2", VideoURL |-> NoKey] ]

InitWith(n) ==
  /\ pc = [r \in Reqs |-> "idle"]
  /\ input = [r \in Reqs |-> NoIn]
  /\ loc = [r \in Reqs |-> NoLoc]
  /\ defers = [r \in Reqs |-> <<>>]
  /\ response = [r \in Reqs |-> "none"]
  /\ disk = {}
  /\ open = {}
  /\ db = InitDB
  /\ bucket = {}
  /\ trace = [r \in Reqs |-> <<>>]
  /\ scenario = n

Init == InitWith("full")

\* Two clients uploading at the same time.
InitPair == InitWith("pair")

\* One upload whose staged file can have any geometry up to MaxDim.
InitClassify == InitWith("classify")

InFlight == {r \in Reqs : pc[r] \notin {"idle", "done"}}

\* respondWithError(w, code, msg, err) followed by return: the status is
\* written and the deferred calls run.
RespondAndReturn(r, code) ==
  /\ response' = [response EXCEPT ![r] = code]
  /\ pc' = [pc EXCEPT ![r] = "return"]

Log(r, ev) == trace' = [trace EXCEPT ![r] = Append(@, ev)]

Defer(r, call) == defers' = [defers EXCEPT ![r] = <<call>> \o @]

\* ------------------------------------------------- handlerUploadVideo
\* Lines 21-42: the server hands a request to the handler; the ceiling reader
\* is created and its Close deferred, the path value is parsed and the
\* credential resolved.
ParseAndAuthenticate(r) ==
  /\ pc[r] = "idle"
  /\ r \in Clients(scenario)
  /\ Cardinality(InFlight) < MaxInFlight(scenario)
  /\ \E s \in VideoIDStringsOf(scenario), h \in AuthHeadersOf(scenario) :
       LET parsed == uuidParse(s)
           bearer == GetBearerToken(h)
           jwt == ValidateJWT(bearer.token)
       IN /\ SendsPath(scenario, r, s, h)
          /\ input' = [input EXCEPT ![r].videoIDString = s, ![r].authorization = h]
          /\ Defer(r, "uploadLimit.Close")
          /\ IF parsed.err
               THEN /\ RespondAndReturn(r, "StatusInternalServerError")
                    /\ UNCHANGED loc
               ELSE IF bearer.err \/ jwt.err
               THEN /\ RespondAndReturn(r, "StatusUnauthorized")
                    /\ loc' = [loc EXCEPT ![r].videoID = parsed.id]
               ELSE /\ loc' = [loc EXCEPT ![r].videoID = parsed.id, ![r].userId = jwt.userId]
                    /\ pc' = [pc EXCEPT ![r] = "GetVideo"]
                    /\ UNCHANGED response
  /\ UNCHANGED <<disk, open, db, bucket, trace, scenario>>

\* The ownership check left out.
NotOwnerOmitted(video, userId) == FALSE

\* Line 50: the owner of the record is not the principal.
NotOwner(video, userId) == video.UserID # userId

\* Lines 45-48: the status answered when the record cannot be loaded.
GetVideoErrorStatus == "StatusInternalServerError"

\* Lines 44-53: load the record and compare its owner with the principal.
GetVideo(r) ==
  /\ pc[r] = "GetVideo"
  /\ Log(r, "GetVideo")
  /\ IF loc[r].videoID \notin DOMAIN db
       THEN /\ RespondAndReturn(r, GetVideoErrorStatus)
            /\ UNCHANGED loc
       ELSE /\ loc' = [loc EXCEPT ![r].video = db[loc[r].videoID]]
            /\ IF NotOwner(db[loc[r].videoID], loc[r].userId)
                 THEN RespondAndReturn(r, "StatusUnauthorized")
                 ELSE /\ pc' = [pc EXCEPT ![r] = "FormFile"]
                      /\ UNCHANGED response
  /\ UNCHANGED <<input, defers, disk, open, db, bucket, scenario>>

\* The check of line 63 on the result of mime.ParseMediaType: only the media
\* type is compared, the parse error is not looked at.
MediaTypeAccepted(parsed) == parsed.mediatype = "video/mp4"

\* Lines 55-66: extract the uploaded part and check its declared media type.
FormFile(r) ==
  /\ pc[r] = "FormFile"
  /\ \E f \in FormsOf(scenario) :
       LET body == ReadBody(FormFileReader, f.size)
           parsed == ParseMediaType(f.contentType)
       IN /\ SendsFile(scenario, r, f)
          /\ input' = [input EXCEPT ![r].form = [f EXCEPT !.size = body.n]]
          /\ IF ~f.present \/ body.err
               THEN /\ RespondAndReturn(r, "StatusBadRequest")
                    /\ UNCHANGED <<loc, defers>>
               ELSE /\ Defer(r, "file.Close")
                    /\ loc' = [loc EXCEPT ![r].mediaType = parsed.mediatype]
                    /\ IF ~MediaTypeAccepted(parsed)
                         THEN RespondAndReturn(r, "StatusBadRequest")
                         ELSE /\ pc' = [pc EXCEPT ![r] = "CreateTemp"]
                              /\ UNCHANGED response
  /\ UNCHANGED <<disk, open, db, bucket, trace, scenario>>

\* A name taken without looking whether a file has it.
NameFreeUnchecked(d, n) == TRUE

\* os.CreateTemp opens the file with O_EXCL: a name is taken only when no
\* file has it.
NameFree(d, n) == ~Exists(d, TempPath(n))

\* Lines 68-76: create the staged file under a name no file has, and defer
\* its removal and the closing of its handle.
CreateTemp(r) ==
  /\ pc[r] = "CreateTemp"
  /\ \/ /\ Faults(scenario)
        /\ Log(r, "CreateTemp.err")
        /\ RespondAndReturn(r, "StatusInternalServerError")
        /\ UNCHANGED <<loc, defers, disk, open>>
     \/ \E n \in Names :
          /\ NameFree(disk, n)
          /\ Log(r, "CreateTemp")
          /\ disk' = WriteFile(disk, TempPath(n), 0)
          /\ open' = open \cup {<<r, "temp">>}
          /\ loc' = [loc EXCEPT ![r].temp = TempPath(n)]
          /\ defers' = [defers EXCEPT ![r] = <<"temp.Close", "os.Remove(temp.Name())">> \o @]
          /\ pc' = [pc EXCEPT ![r] = "Copy"]
          /\ UNCHANGED response
  /\ UNCHANGED <<input, db, bucket, scenario>>

\* Bytes left in the staged file when io.Copy stops with an error.
PartialSizes(n) == {0, n \div 2}

\* Lines 78-81: copy the part into the staged file.
Copy(r) ==
  /\ pc[r] = "Copy"
  /\ \/ /\ Log(r, "io.Copy")
        /\ disk' = WriteFile(disk, loc[r].temp, input[r].form.size)
        /\ pc' = [pc EXCEPT ![r] = "Seek"]
        /\ UNCHANGED response
     \/ \E n \in PartialSizes(input[r].form.size) :
          /\ Faults(scenario)
          /\ Log(r, "io.Copy.err")
          /\ disk' = WriteFile(disk, loc[r].temp, n)
          /\ RespondAndReturn(r, "StatusInternalServerError")
  /\ UNCHANGED <<input, loc, defers, open, db, bucket, scenario>>

\* Lines 83-86: rewind the staged file.
Seek(r) ==
  /\ pc[r] = "Seek"
  /\ \/ /\ Log(r, "temp.Seek")
        /\ pc' = [pc EXCEPT ![r] = "RandRead"]
        /\ UNCHANGED response
     \/ /\ Faults(scenario)
        /\ Log(r, "temp.Seek.err")
        /\ RespondAndReturn(r, "StatusInternalServerError")
  /\ UNCHANGED <<input, loc, defers, disk, open, db, bucket, scenario>>

\* Values rand.Read can fill the 16 bytes with: 00 01 .. 0f and ff ef .. 0f.
RandSamples == { [i \in 1..RandLen |-> i - 1], [i \in 1..RandLen |-> 255 - 16 * (i - 1)] }

\* Lines 88-93: draw the random bytes of the key.
RandRead(r) ==
  /\ pc[r] = "RandRead"
  /\ \/ \E b \in RandSamples :
          /\ Log(r, "rand.Read")
          /\ loc' = [loc EXCEPT ![r].randBytes = b]
          /\ pc' = [pc EXCEPT ![r] = "Probe"]
          /\ UNCHANGED response
     \/ /\ Faults(scenario)
        /\ Log(r, "rand.Read.err")
        /\ RespondAndReturn(r, "StatusInternalServerError")
        /\ UNCHANGED loc
  /\ UNCHANGED <<input, defers, disk, open, db, bucket, scenario>>

\* ------------------------------------------------ getVideoAspectRatio
\* type Stream struct { Width int; Height int }
Stream(w, h) == [Width |-> w, Height |-> h]

\* Exact fractions, for the constant expressions 16.0/9.0 +- tolerance.
Rat(n, d) == [n |-> n, d |-> d]

RatAdd(a, b) == Rat(a.n * b.d + b.n * a.d, a.d * b.d)

RatSub(a, b) == Rat(a.n * b.d - b.n * a.d, a.d * b.d)

\* const tolerance = 0.1
tolerance == Rat(1, 10)

\* float64(width) / float64(height): a quotient, +Inf for x/0 and NaN for
\* 0/0. For the dimensions enumerated the quotient is kept exact: float64
\* rounding is monotone and two distinct fractions with denominators below
\* 2^26 never round to the same float64.
FloatDiv(w, h) ==
  IF h # 0 THEN [kind |-> "num", n |-> w, d |-> h]
  ELSE IF w = 0 THEN [kind |-> "NaN", n |-> 0, d |-> 0]
  ELSE [kind |-> "Inf", n |-> 0, d |-> 0]

\* ratio > c for a float ratio and a positive constant c.
FloatGT(x, c) ==
  CASE x.kind = "NaN" -> FALSE
    [] x.kind = "Inf" -> TRUE
    [] OTHER -> x.n * c.d > c.n * x.d

\* ratio < c for a float ratio and a positive constant c.
FloatLT(x, c) ==
  CASE x.kind = "NaN" -> FALSE
    [] x.kind = "Inf" -> FALSE
    [] OTHER -> x.n * c.d < c.n * x.d

\* The two ranges with their ends included.
ClassifyRatioInclusive(width, height) ==
  LET ratio == FloatDiv(width, height)
  IN IF ~FloatLT(ratio, RatSub(Rat(16, 9), tolerance)) /\ ~FloatGT(ratio, RatAdd(Rat(16, 9), tolerance))
       THEN "16:9"
     ELSE IF ~FloatLT(ratio, RatSub(Rat(9, 16), tolerance)) /\ ~FloatGT(ratio, RatAdd(Rat(9, 16), tolerance))
       THEN "9:16"
     ELSE "other"

\* Lines 180-193: the ratio of the first stream against the two ranges.
ClassifyRatio(width, height) ==
  LET ratio == FloatDiv(width, height)
  IN IF FloatGT(ratio, RatSub(Rat(16, 9), tolerance)) /\ FloatLT(ratio, RatAdd(Rat(16, 9), tolerance))
       THEN "16:9"
     ELSE IF FloatGT(ratio, RatSub(Rat(9, 16), tolerance)) /\ FloatLT(ratio, RatAdd(Rat(9, 16), tolerance))
       THEN "9:16"
     ELSE "other"

\* What running ffprobe and decoding its output can give: the command fails
\* (tool missing or non-zero exit), the output is not the expected JSON, or a
\* list of streams.
ProbeOutput(run, json, streams) == [run |-> run, json |-> json, streams |-> streams]

\* An output without streams taken for a file of no particular shape.
getVideoAspectRatioNoStreamCheck(out) ==
  IF out.run = "err" THEN [err |-> TRUE, ratio |-> ""]
  ELSE IF out.json = "bad" THEN [err |-> TRUE, ratio |-> ""]
  ELSE IF Len(out.streams) = 0 THEN [err |-> FALSE, ratio |-> "other"]
  ELSE [err |-> FALSE, ratio |-> ClassifyRatio(out.streams[1].Width, out.streams[1].Height)]

\* A first stream without a height taken for a probe failure.
getVideoAspectRatioRejectsZeroHeight(out) ==
  IF out.run = "err" THEN [err |-> TRUE, ratio |-> ""]
  ELSE IF out.json = "bad" THEN [err |-> TRUE, ratio |-> ""]
  ELSE IF Len(out.streams) = 0 THEN [err |-> TRUE, ratio |-> ""]
  ELSE IF out.streams[1].Height = 0 THEN [err |-> TRUE, ratio |-> ""]
  ELSE [err |-> FALSE, ratio |-> ClassifyRatio(out.streams[1].Width, out.streams[1].Height)]

\* Lines 162-195.
getVideoAspectRatio(out) ==
  IF out.run = "err" THEN [err |-> TRUE, ratio |-> ""]
  ELSE IF out.json = "bad" THEN [err |-> TRUE, ratio |-> ""]
  ELSE IF Len(out.streams) = 0 THEN [err |-> TRUE, ratio |-> ""]
  ELSE [err |-> FALSE, ratio |-> ClassifyRatio(out.streams[1].Width, out.streams[1].Height)]

\* Lines 101-109: the switch from the ratio to the key prefix.
PrefixOf(ratio) ==
  CASE ratio = "16:9" -> "landscape"
    [] ratio = "9:16" -> "portrait"
    [] OTHER -> "other"

StreamLists ==
  { <<>>,
    <<Stream(1280, 720)>>,
    <<Stream(720, 1280)>>,
    <<Stream(640, 480)>>,
    <<Stream(0, 0), Stream(1280, 720)>>,
    <<Stream(1280, 0)>>,
    <<Stream(1280, 720), Stream(720, 1280)>> }

ProbeOutputs ==
  {ProbeOutput("err", "ok", <<>>), ProbeOutput("ok", "bad", <<>>)}
  \cup {ProbeOutput("ok", "ok", s) : s \in StreamLists}

\* Every first stream up to mw x mh, alone or followed by a second stream of
\* the transposed geometry.
WideStreamLists(mw, mh) ==
  {<<Stream(w, h)>> : w \in 0..mw, h \in 0..mh}
  \cup {<<Stream(w, h), Stream(h, w)>> : w \in 0..mw, h \in 0..mh}

ProbeOutputsOf(sc) ==
  CASE sc = "full" -> ProbeOutputs
    [] sc = "pair" -> {ProbeOutput("ok", "ok", s) : s \in {<<Stream(1280, 720)>>, <<Stream(640, 480), Stream(1280, 720)>>}}
    [] OTHER -> {ProbeOutput("ok", "ok", s) : s \in WideStreamLists(MaxWidth, MaxHeight)}

\* Lines 95-109: probe the staged file and pick the prefix.
Probe(r) ==
  /\ pc[r] = "Probe"
  /\ \E out \in ProbeOutputsOf(scenario) :
       LET res == getVideoAspectRatio(out)
       IN IF res.err
            THEN /\ Log(r, "ffprobe.err")
                 /\ RespondAndReturn(r, "StatusInternalServerError")
                 /\ loc' = [loc EXCEPT ![r].probe = out]
            ELSE /\ Log(r, "ffprobe")
                 /\ loc' = [loc EXCEPT ![r].probe = out, ![r].ratio = res.ratio, ![r].prefix = PrefixOf(res.ratio)]
                 /\ pc' = [pc EXCEPT ![r] = "Remux"]
                 /\ UNCHANGED response
  /\ UNCHANGED <<input, defers, disk, open, db, bucket, scenario>>

\* -------------------------------------------- processVideoForFastStart
\* How the ffmpeg step can go: the tool is not on the PATH; it exits
\* non-zero having written nothing, an empty file or part of the output; it
\* exits zero having written the output, an empty file or nothing.
FfmpegOutcomes == {"notfound", "fail", "fail-empty", "fail-partial", "ok", "ok-empty", "ok-missing"}

FfmpegOutcomesOf(sc) ==
  CASE Faults(sc) -> FfmpegOutcomes
    [] sc = "pair" -> {"ok", "ok-empty"}
    [] OTHER -> {"ok"}

\* ffmpeg is run without -y and without a terminal (line 203): when the
\* output path already has a file it exits non-zero and writes nothing.
NoOverwrite(d, filePath, outcome) ==
  IF outcome # "notfound" /\ Exists(d, ProcessingPath(filePath)) THEN "fail" ELSE outcome

\* The disk after the ffmpeg run.
FfmpegWrites(d, filePath, outcome) ==
  LET output == ProcessingPath(filePath)
      full == IF SizeOf(d, filePath) > 0 THEN SizeOf(d, filePath) ELSE 1
  IN CASE outcome \in {"fail-empty", "ok-empty"} -> WriteFile(d, output, 0)
       [] outcome = "fail-partial" -> WriteFile(d, output, 1)
       [] outcome = "ok" -> WriteFile(d, output, full)
       [] OTHER -> d

\* How ffmpeg exited.
ExitOf(outcome) ==
  CASE outcome = "notfound" -> "notfound"
    [] outcome \in {"ok", "ok-empty", "ok-missing"} -> "zero"
    [] OTHER -> "nonzero"

\* What the run looked like to the handler's process.
RunOf(d, filePath, outcome) ==
  [ exit |-> ExitOf(outcome),
    statSize |-> IF Exists(d, ProcessingPath(filePath)) THEN SizeOf(d, ProcessingPath(filePath)) ELSE -1 ]

\* The size of the output not looked at.
processVideoForFastStartNoSizeCheck(d, filePath, outcome) ==
  LET output == ProcessingPath(filePath)
  IN IF outcome = "notfound" THEN [err |-> TRUE, path |-> NoPath]
     ELSE IF outcome \in {"fail", "fail-empty", "fail-partial"} THEN [err |-> TRUE, path |-> NoPath]
     ELSE IF ~Exists(d, output) THEN [err |-> TRUE, path |-> NoPath]
     ELSE [err |-> FALSE, path |-> output]

\* Lines 197-221, on the disk the ffmpeg run left.
processVideoForFastStart(d, filePath, outcome) ==
  LET output == ProcessingPath(filePath)
  IN IF outcome = "notfound" THEN [err |-> TRUE, path |-> NoPath]
     ELSE IF outcome \in {"fail", "fail-empty", "fail-partial"} THEN [err |-> TRUE, path |-> NoPath]
     ELSE IF ~Exists(d, output) THEN [err |-> TRUE, path |-> NoPath]
     ELSE IF SizeOf(d, output) = 0 THEN [err |-> TRUE, path |-> NoPath]
     ELSE [err |-> FALSE, path |-> output]

\* Lines 111-116: remux the staged file; the removal of the output is
\* deferred only once the step has succeeded.
Remux(r) ==
  /\ pc[r] = "Remux"
  /\ \E drawn \in FfmpegOutcomesOf(scenario) :
       LET outcome == NoOverwrite(disk, loc[r].temp, drawn)
           after == FfmpegWrites(disk, loc[r].temp, outcome)
           res == processVideoForFastStart(after, loc[r].temp, outcome)
       IN /\ disk' = after
          /\ IF res.err
               THEN /\ Log(r, "ffmpeg.err")
                    /\ RespondAndReturn(r, "StatusInternalServerError")
                    /\ loc' = [loc EXCEPT ![r].ffmpeg = RunOf(after, loc[r].temp, outcome)]
                    /\ UNCHANGED defers
               ELSE /\ Log(r, "ffmpeg")
                    /\ loc' = [loc EXCEPT ![r].ffmpeg = RunOf(after, loc[r].temp, outcome), ![r].fastStart = res.path]
                    /\ Defer(r, "os.Remove(fastStart)")
                    /\ pc' = [pc EXCEPT ![r] = "Open"]
                    /\ UNCHANGED response
  /\ UNCHANGED <<input, open, db, bucket, scenario>>

\* Lines 118-123: open the remuxed file.
Open(r) ==
  /\ pc[r] = "Open"
  /\ \/ /\ Exists(disk, loc[r].fastStart)
        /\ Log(r, "os.Open")
        /\ open' = open \cup {<<r, "processedFile">>}
        /\ Defer(r, "processedFile.Close")
        /\ pc' = [pc EXCEPT ![r] = "PutObject"]
        /\ UNCHANGED response
     \/ /\ Faults(scenario)
        /\ Log(r, "os.Open.err")
        /\ RespondAndReturn(r, "StatusInternalServerError")
        /\ UNCHANGED <<open, defers>>
  /\ UNCHANGED <<input, loc, disk, db, bucket, scenario>>

\* --------------------------------------------------------- key and URL
HexDigits == <<"0", "1", "2", "3", "4", "5", "6", "7", "8", "9", "a", "b", "c", "d", "e", "f">>

\* A byte below 16 printed as one digit.
HexByteNoPad(b) == IF b < 16 THEN <<HexDigits[b + 1]>> ELSE <<HexDigits[(b \div 16) + 1], HexDigits[(b % 16) + 1]>>

\* %x of one byte: two lowercase hex digits.
HexByte(b) == <<HexDigits[(b \div 16) + 1], HexDigits[(b % 16) + 1]>>

RECURSIVE HexEncode(_)
\* %x of a byte slice.
HexEncode(bytes) == IF bytes = <<>> THEN <<>> ELSE HexByte(Head(bytes)) \o HexEncode(Tail(bytes))

\* The characters of a prefix string.
Chars(prefix) ==
  CASE prefix = "landscape" -> <<"l", "a", "n", "d", "s", "c", "a", "p", "e">>
    [] prefix = "portrait" -> <<"p", "o", "r", "t", "r", "a", "i", "t">>
    [] prefix = "other" -> <<"o", "t", "h", "e", "r">>
    [] OTHER -> <<>>

\* key := fmt.Sprintf("%s/%x.mp4", prefix, randBytes)
KeyOf(prefix, randBytes) == Chars(prefix) \o <<"/">> \o HexEncode(randBytes) \o <<".", "m", "p", "4">>

\* cfg.s3CfDistribution
s3CfDistribution == <<"h", "t", "t", "p", "s", ":", "/", "/", "c", "d", "n">>

\* The URL built without the separator.
URLOfNoSlash(key) == s3CfDistribution \o key

\* s3URL := fmt.Sprintf("%s/%s", cfg.s3CfDistribution, key)
URLOf(key) == s3CfDistribution \o <<"/">> \o key

\* The error of the put ignored: the handler goes on to update the record.
PutFailedIgnored(r) == pc' = [pc EXCEPT ![r] = "UpdateVideo"] /\ UNCHANGED response

\* The put tried again after an error.
PutFailedRetry(r) == UNCHANGED <<pc, response>>

\* Lines 133-136: a failed put answers InternalError and returns.
PutFailed(r) == RespondAndReturn(r, "StatusInternalServerError")

\* Lines 125-136: derive the key and put the remuxed file.
PutObject(r) ==
  /\ pc[r] = "PutObject"
  /\ LET key == KeyOf(loc[r].prefix, loc[r].randBytes)
     IN /\ loc' = [loc EXCEPT ![r].key = key]
        /\ \/ /\ Log(r, "PutObject")
              /\ bucket' = bucket \cup {key}
              /\ pc' = [pc EXCEPT ![r] = "UpdateVideo"]
              /\ UNCHANGED response
           \/ /\ StoreFaults(scenario)
              /\ Log(r, "PutObject.err")
              /\ PutFailed(r)
              /\ UNCHANGED bucket
  /\ UNCHANGED <<input, defers, disk, open, db, scenario>>

\* The error of the update swallowed: the request is answered as a success.
UpdateFailedIgnored(r) == RespondAndReturn(r, "StatusOK")

\* Lines 145-148: a failed update answers InternalError and returns; nothing
\* is done about the object already stored.
UpdateFailed(r) == RespondAndReturn(r, "StatusInternalServerError")

\* Lines 138-150: set the URL on the local copy of the record, save it and
\* answer with the record.
UpdateVideo(r) ==
  /\ pc[r] = "UpdateVideo"
  /\ LET video == [loc[r].video EXCEPT !.VideoURL = URLOf(loc[r].key)]
     IN /\ loc' = [loc EXCEPT ![r].video = video]
        /\ \/ /\ Log(r, "UpdateVideo")
              /\ db' = [db EXCEPT ![video.ID] = video]
              /\ RespondAndReturn(r, "StatusOK")
           \/ /\ StoreFaults(scenario)
              /\ Log(r, "UpdateVideo.err")
              /\ UpdateFailed(r)
              /\ UNCHANGED db
  /\ UNCHANGED <<input, defers, disk, open, bucket, scenario>>

\* The remuxed file never removed.
DeferredDiskKeepsOutput(r, call) ==
  CASE call = "os.Remove(temp.Name())" -> RemoveFile(disk, loc[r].temp)
    [] OTHER -> disk

\* The effect of one deferred call on the disk.
DeferredDisk(r, call) ==
  CASE call = "os.Remove(temp.Name())" -> RemoveFile(disk, loc[r].temp)
    [] call = "os.Remove(fastStart)" -> RemoveFile(disk, loc[r].fastStart)
    [] OTHER -> disk

\* The effect of one deferred call on the open handles.
DeferredOpen(r, call) ==
  CASE call = "temp.Close" -> open \ {<<r, "temp">>}
    [] call = "processedFile.Close" -> open \ {<<r, "processedFile">>}
    [] OTHER -> open

\* The return of the handler: the deferred calls run last registered first
\* (lines 23, 60, 74, 76, 116, 123).
RunDeferred(r) ==
  /\ pc[r] = "return"
  /\ defers[r] # <<>>
  /\ LET call == Head(defers[r])
     IN /\ Log(r, call)
        /\ disk' = DeferredDisk(r, call)
        /\ open' = DeferredOpen(r, call)
        /\ defers' = [defers EXCEPT ![r] = Tail(@)]
        /\ pc' = [pc EXCEPT ![r] = IF Tail(defers[r]) = <<>> THEN "done" ELSE "return"]
  /\ UNCHANGED <<input, loc, response, db, bucket, scenario>>

Next ==
  \E r \in Reqs :
    \/ ParseAndAuthenticate(r)
    \/ GetVideo(r)
    \/ FormFile(r)
    \/ CreateTemp(r)
    \/ Copy(r)
    \/ Seek(r)
    \/ RandRead(r)
    \/ Probe(r)
    \/ Remux(r)
    \/ Open(r)
    \/ PutObject(r)
    \/ UpdateVideo(r)
    \/ RunDeferred(r)

Spec == Init /\ [][Next]_vars

SpecPair == InitPair /\ [][Next]_vars

\* The pipeline up to the classification of the staged file.
NextClassify ==
  \E r \in Reqs :
    \/ ParseAndAuthenticate(r)
    \/ GetVideo(r)
    \/ FormFile(r)
    \/ CreateTemp(r)
    \/ Copy(r)
    \/ Seek(r)
    \/ RandRead(r)
    \/ Probe(r)

SpecClassify == InitClassify /\ [][NextClassify]_vars

\* ================================================================ claims
Range(s) == {s[i] : i \in DOMAIN s}

Count(s, x) == Cardinality({i \in DOMAIN s : s[i] = x})

\* Position of the first occurrence of x in s, 0 when absent.
IndexOf(s, x) == IF x \in Range(s) THEN CHOOSE i \in DOMAIN s : s[i] = x /\ \A j \in 1..(i - 1) : s[j] # x ELSE 0

Ops(r) == Range(trace[r])

\* The handler has returned and its deferred calls have run.
Returned(r) == pc[r] = "done"

StagingOps == {"CreateTemp", "CreateTemp.err", "io.Copy", "io.Copy.err"}

ProbeOps == {"ffprobe", "ffprobe.err"}

RemuxOps == {"ffmpeg", "ffmpeg.err"}

PutOps == {"PutObject", "PutObject.err"}

UpdateOps == {"UpdateVideo", "UpdateVideo.err"}

\* Every operation of the pipeline, as opposed to the deferred cleanup.
PipelineOps ==
  {"GetVideo", "temp.Seek", "temp.Seek.err", "rand.Read", "rand.Read.err", "os.Open", "os.Open.err"}
  \cup StagingOps \cup ProbeOps \cup RemuxOps \cup PutOps \cup UpdateOps

\* The principal a request's credential resolves to, "nil" when it resolves
\* to none.
PrincipalOf(r) ==
  CASE input[r].authorization = "Bearer tok-u1" -> "u1"
    [] input[r].authorization = "Bearer tok-u2" -> "u2"
    [] OTHER -> "nil"

\* C1: a request that fails after the staged file was created leaves neither
\* the staged file nor its ".processing" output on disk once the handler has
\* returned.
C1_NoTempFileAfterFailure ==
  \A r \in Reqs :
    (Returned(r) /\ "CreateTemp" \in Ops(r) /\ response[r] # "StatusOK")
      => /\ ~Exists(disk, loc[r].temp)
         /\ ~Exists(disk, ProcessingPath(loc[r].temp))

\* C2: the staged file never holds more bytes than the 1 GiB ceiling.
C2_StagedWithinCeiling ==
  \A f \in disk : f.path.ext = "" => f.size <= Ceiling

\* The credential is valid, the record exists and belongs to someone else,
\* and the handler has looked the record up.
OwnerMismatch(r) ==
  /\ "GetVideo" \in Ops(r)
  /\ PrincipalOf(r) # "nil"
  /\ input[r].videoIDString \in DOMAIN InitDB
  /\ InitDB[input[r].videoIDString].UserID # PrincipalOf(r)

\* C3: a valid principal that is not the owner of the record is answered
\* Unauthorized, and the request creates no temp file, runs no probe or
\* remux, puts nothing and does not update the record.
C3_OwnerMismatchUnauthorized ==
  \A r \in Reqs :
    OwnerMismatch(r)
      => /\ response[r] = "StatusUnauthorized"
         /\ Ops(r) \cap (StagingOps \cup ProbeOps \cup RemuxOps \cup PutOps \cup UpdateOps) = {}
         /\ disk = {}
         /\ bucket = {}
         /\ db = InitDB

C3_Witness ==
  /\ Returned("r1")
  /\ OwnerMismatch("r1")
  /\ input["r1"].videoIDString = "v1"
  /\ PrincipalOf("r1") = "u2"

\* C4: the record is updated only after the put of the same request has
\* succeeded: a request that has no successful put never calls UpdateVideo
\* and leaves the record as it was; a successful request calls UpdateVideo
\* exactly once, after the put, and no operation of the pipeline follows it.
C4_UpdateOnlyAfterPut ==
  /\ \A r \in Reqs :
       LET put == IndexOf(trace[r], "PutObject")
           upd == {i \in DOMAIN trace[r] : trace[r][i] \in UpdateOps}
       IN /\ Cardinality(upd) <= 1
          /\ \A i \in upd : put > 0 /\ put < i
          /\ \A i \in upd : \A j \in DOMAIN trace[r] : j > i => trace[r][j] \notin PipelineOps
          /\ response[r] = "StatusOK" => Count(trace[r], "UpdateVideo") = 1
  /\ \A v \in DOMAIN db :
       db[v] # InitDB[v]
         => \E r \in Reqs : /\ loc[r].videoID = v
                            /\ "PutObject" \in Ops(r)
                            /\ "UpdateVideo" \in Ops(r)

\* A request has succeeded: its object is stored and the record points at it.
C4_Witness ==
  /\ Returned("r1")
  /\ response["r1"] = "StatusOK"
  /\ loc["r1"].key \in bucket
  /\ db["v1"].VideoURL = URLOf(loc["r1"].key)

\* C5: a valid credential and a well-formed id of a record that does not
\* exist is answered NotFound, and nothing is staged, stored or updated.
C5_MissingRecordNotFound ==
  \A r \in Reqs :
    ( /\ "GetVideo" \in Ops(r)
      /\ PrincipalOf(r) # "nil"
      /\ input[r].videoIDString = "v3" )
      => /\ response[r] = "StatusNotFound"
         /\ Ops(r) \cap (StagingOps \cup PutOps \cup UpdateOps) = {}

\* The handler has got past the ownership check and found the "video" part.
OwnerWithPart(r) ==
  /\ "GetVideo" \in Ops(r)
  /\ PrincipalOf(r) # "nil"
  /\ input[r].videoIDString \in DOMAIN InitDB
  /\ InitDB[input[r].videoIDString].UserID = PrincipalOf(r)
  /\ input[r].form.present

\* The declared Content-Type does not parse, or its media type is not
\* video/mp4.
NotDeclaredMp4(contentType) ==
  \/ ParseMediaType(contentType).err
  \/ ParseMediaType(contentType).mediatype # "video/mp4"

\* C6: for the owner, a part whose declared media type is not video/mp4, an
\* unparsable Content-Type included, is answered BadRequest before the staged
\* file is created, and nothing is probed, remuxed, put or updated.
C6_NotMp4BadRequest ==
  \A r \in Reqs :
    (OwnerWithPart(r) /\ NotDeclaredMp4(input[r].form.contentType))
      => /\ response[r] = "StatusBadRequest"
         /\ Ops(r) \cap (StagingOps \cup ProbeOps \cup RemuxOps \cup PutOps \cup UpdateOps) = {}

\* ffprobe has run and the probe failed: the command failed, its output was
\* not the expected JSON, or it listed no stream.
ProbeFailed(r) ==
  \/ loc[r].probe.run = "err"
  \/ /\ loc[r].probe.run = "ok"
     /\ \/ loc[r].probe.json = "bad"
        \/ Len(loc[r].probe.streams) = 0

\* C7: a failed probe is answered InternalError; the remux is not run,
\* nothing is put, the record is not updated, and the staged file is gone
\* once the handler has returned.
C7_ProbeFailure ==
  \A r \in Reqs :
    ProbeFailed(r)
      => /\ response[r] = "StatusInternalServerError"
         /\ Ops(r) \cap (RemuxOps \cup PutOps \cup UpdateOps) = {}
         /\ loc[r].ffmpeg = NoRun
         /\ bucket = {}
         /\ db = InitDB
         /\ Returned(r) => (~Exists(disk, loc[r].temp) /\ <<r, "temp">> \notin open)

\* ffprobe listed no stream and the handler has returned.
C7_Witness ==
  /\ Returned("r1")
  /\ loc["r1"].probe = [run |-> "ok", json |-> "ok", streams |-> <<>>]

Abs(x) == IF x < 0 THEN -x ELSE x

\* |width/height - 16/9| < 0.1, as 151*height < 90*width < 169*height.
InLandscapeRange(w, h) == 151 * h < 90 * w /\ 90 * w < 169 * h

\* |width/height - 9/16| < 0.1, as 37*height < 80*width < 53*height.
InPortraitRange(w, h) == 37 * h < 80 * w /\ 80 * w < 53 * h

\* C8: for width >= 0 and height > 0 of the first stream, the prefix is
\* landscape iff |width/height - 16/9| < 0.1, portrait iff
\* |width/height - 9/16| < 0.1, and other otherwise; the two ranges never
\* both hold, and the streams after the first do not matter.
C8_Classification ==
  \A r \in Reqs :
    "ffprobe" \in Ops(r)
      => LET w == loc[r].probe.streams[1].Width
             h == loc[r].probe.streams[1].Height
         IN (w >= 0 /\ h > 0)
              => /\ loc[r].prefix = "landscape" <=> InLandscapeRange(w, h)
                 /\ loc[r].prefix = "portrait" <=> InPortraitRange(w, h)
                 /\ loc[r].prefix = "other" <=> (~InLandscapeRange(w, h) /\ ~InPortraitRange(w, h))
                 /\ InLandscapeRange(w, h) <=> 10 * Abs(9 * w - 16 * h) < 9 * h
                 /\ InPortraitRange(w, h) <=> 10 * Abs(16 * w - 9 * h) < 16 * h
                 /\ ~(InLandscapeRange(w, h) /\ InPortraitRange(w, h))

\* A first stream just inside the landscape range followed by a portrait
\* stream.
C8_Witness ==
  /\ loc["r1"].probe.streams = <<Stream(152, 90), Stream(90, 152)>>
  /\ loc["r1"].prefix = "landscape"
  /\ InPortraitRange(90, 152)

LowerHex == {"0", "1", "2", "3", "4", "5", "6", "7", "8", "9", "a", "b", "c", "d", "e", "f"}

DigitValue(c) ==
  CASE c = "0" -> 0 [] c = "1" -> 1 [] c = "2" -> 2 [] c = "3" -> 3
    [] c = "4" -> 4 [] c = "5" -> 5 [] c = "6" -> 6 [] c = "7" -> 7
    [] c = "8" -> 8 [] c = "9" -> 9 [] c = "a" -> 10 [] c = "b" -> 11
    [] c = "c" -> 12 [] c = "d" -> 13 [] c = "e" -> 14 [] c = "f" -> 15

\* The classification of a staged file by the geometry of its first stream.
ClassOf(streams) ==
  LET w == streams[1].Width
      h == streams[1].Height
  IN IF h > 0 /\ InLandscapeRange(w, h) THEN <<"l", "a", "n", "d", "s", "c", "a", "p", "e">>
     ELSE IF h > 0 /\ InPortraitRange(w, h) THEN <<"p", "o", "r", "t", "r", "a", "i", "t">>
     ELSE <<"o", "t", "h", "e", "r">>

\* key is "{class}/{hex}.mp4" with hex the 32 lowercase hex digits of bytes.
KeyHasForm(key, class, bytes) ==
  LET n == Len(class)
  IN /\ Len(bytes) = 16
     /\ Len(key) = n + 1 + 32 + 4
     /\ SubSeq(key, 1, n) = class
     /\ key[n + 1] = "/"
     /\ \A i \in 1..32 : key[n + 1 + i] \in LowerHex
     /\ \A i \in 1..16 : 16 * DigitValue(key[n + 2 * i]) + DigitValue(key[n + 2 * i + 1]) = bytes[i]
     /\ SubSeq(key, n + 34, n + 37) = <<".", "m", "p", "4">>

\* The request has called PutObject.
HasPut(r) == Ops(r) \cap PutOps # {}

\* C9: every key passed to the object store is "{prefix}/{hex}.mp4" with the
\* prefix the classification of the staged file and hex the lowercase hex of
\* the request's 16 random bytes; two requests with the same classification
\* and random bytes derive the same key whatever their file name, video id
\* and principal.
C9_KeyForm ==
  /\ \A r \in Reqs : HasPut(r) => KeyHasForm(loc[r].key, ClassOf(loc[r].probe.streams), loc[r].randBytes)
  /\ bucket \subseteq {loc[r].key : r \in {q \in Reqs : HasPut(q)}}
  /\ \A r1, r2 \in Reqs :
       ( /\ HasPut(r1) /\ HasPut(r2)
         /\ ClassOf(loc[r1].probe.streams) = ClassOf(loc[r2].probe.streams)
         /\ loc[r1].randBytes = loc[r2].randBytes )
         => loc[r1].key = loc[r2].key

\* Two uploads that differ in file name, video id and principal and agree on
\* geometry and random bytes.
C9_Witness ==
  /\ HasPut("r1") /\ HasPut("r2")
  /\ input["r1"].form.filename # input["r2"].form.filename
  /\ input["r1"].videoIDString # input["r2"].videoIDString
  /\ PrincipalOf("r1") # PrincipalOf("r2")
  /\ loc["r1"].probe = loc["r2"].probe
  /\ loc["r1"].randBytes = loc["r2"].randBytes
  /\ loc["r1"].key = loc["r2"].key
  /\ loc["r1"].key \in bucket

\* C10: when ffmpeg exits 0 and the output is missing or empty,
\* processVideoForFastStart returns an error and no path, the request is
\* answered InternalError, nothing is put and the record is not updated.
C10_EmptyOutputRejected ==
  \A r \in Reqs :
    (loc[r].ffmpeg.exit = "zero" /\ loc[r].ffmpeg.statSize <= 0)
      => /\ loc[r].fastStart = NoPath
         /\ "ffmpeg.err" \in Ops(r)
         /\ response[r] = "StatusInternalServerError"
         /\ Ops(r) \cap ({"os.Open", "os.Open.err"} \cup PutOps \cup UpdateOps) = {}
         /\ bucket = {}
         /\ db = InitDB

\* ffmpeg exited 0 leaving an empty output, and the handler has returned.
C10_Witness ==
  /\ Returned("r1")
  /\ loc["r1"].ffmpeg = [exit |-> "zero", statSize |-> 0]

\* The credential is missing or does not validate.
BadCredential(r) ==
  /\ pc[r] # "idle"
  /\ input[r].authorization \in {"absent", "Bearer bad", "Bearer expired"}

\* C11: a request whose credential is missing, invalid or expired is answered
\* Unauthorized whatever its other inputs, a malformed video id included, and
\* never loads the record, stages a file, puts an object or updates the
\* record.
C11_BadCredentialUnauthorized ==
  \A r \in Reqs :
    BadCredential(r)
      => /\ response[r] = "StatusUnauthorized"
         /\ Ops(r) \cap PipelineOps = {}

\* C12: a request whose path video id is malformed is answered BadRequest.
C12_MalformedIdBadRequest ==
  \A r \in Reqs :
    (pc[r] # "idle" /\ input[r].videoIDString = "not-a-uuid")
      => response[r] = "StatusBadRequest"

\* C13: once a successful request has returned, the staged file and the
\* remuxed file are deleted and both handles are closed.
C13_SuccessLeavesNoFile ==
  \A r \in Reqs :
    (Returned(r) /\ response[r] = "StatusOK")
      => /\ ~Exists(disk, loc[r].temp)
         /\ ~Exists(disk, loc[r].fastStart)
         /\ ~Exists(disk, ProcessingPath(loc[r].temp))
         /\ <<r, "temp">> \notin open
         /\ <<r, "processedFile">> \notin open
         /\ defers[r] = <<>>

\* A successful request has returned, having created both files.
C13_Witness ==
  /\ Returned("r1")
  /\ response["r1"] = "StatusOK"
  /\ {"CreateTemp", "ffmpeg", "os.Open"} \subseteq Ops("r1")
  /\ loc["r1"].fastStart = ProcessingPath(loc["r1"].temp)
  /\ disk = {}

\* C14: on success the reference saved on the record and returned in the
\* response is "{distributionBase}/{key}" for the key this request put; for
\* a landscape upload the path after the base starts with "landscape/".
C14_ReferenceIsBaseSlashKey ==
  \A r \in Reqs :
    response[r] = "StatusOK"
      => LET url == db[loc[r].videoID].VideoURL
             base == Len(s3CfDistribution)
         IN /\ "PutObject" \in Ops(r)
            /\ loc[r].key \in bucket
            /\ Len(url) = base + 1 + Len(loc[r].key)
            /\ SubSeq(url, 1, base) = s3CfDistribution
            /\ url[base + 1] = "/"
            /\ SubSeq(url, base + 2, Len(url)) = loc[r].key
            /\ loc[r].video.VideoURL = url
            /\ loc[r].probe.streams[1] = Stream(1280, 720)
                 => SubSeq(url, base + 2, base + 11) = <<"l", "a", "n", "d", "s", "c", "a", "p", "e", "/">>

\* Scenario A: the owner's 1280x720 upload has succeeded.
C14_Witness ==
  /\ Returned("r1")
  /\ response["r1"] = "StatusOK"
  /\ loc["r1"].probe.streams = <<Stream(1280, 720)>>
  /\ db["v1"].VideoURL = s3CfDistribution \o <<"/">> \o loc["r1"].key

\* The external operations of the pipeline, by kind.
OpKinds ==
  { {"GetVideo"}, {"CreateTemp", "CreateTemp.err"}, {"io.Copy", "io.Copy.err"},
    {"temp.Seek", "temp.Seek.err"}, {"rand.Read", "rand.Read.err"},
    ProbeOps, RemuxOps, {"os.Open", "os.Open.err"}, PutOps, UpdateOps }

FailedOps ==
  { "CreateTemp.err", "io.Copy.err", "temp.Seek.err", "rand.Read.err", "ffprobe.err",
    "ffmpeg.err", "os.Open.err", "PutObject.err", "UpdateVideo.err" }

\* Each operation is invoked at most once, nothing of the pipeline follows a
\* failed operation, and a request is answered exactly when it is returning.
C15_AtMostOnce ==
  \A r \in Reqs :
    /\ \A kind \in OpKinds : Cardinality({i \in DOMAIN trace[r] : trace[r][i] \in kind}) <= 1
    /\ \A i \in DOMAIN trace[r] :
         trace[r][i] \in FailedOps
           => /\ response[r] \notin {"none", "StatusOK"}
              /\ \A j \in DOMAIN trace[r] : j > i => trace[r][j] \notin PipelineOps
    /\ response[r] # "none" <=> pc[r] \in {"return", "done"}

\* Once a request is answered, the answer stays and no operation of the
\* pipeline is performed for it.
C15_AfterAnswer ==
  \A r \in Reqs :
    response[r] # "none"
      => /\ response'[r] = response[r]
         /\ \/ trace'[r] = trace[r]
            \/ /\ Len(trace'[r]) = Len(trace[r]) + 1
               /\ trace'[r][Len(trace'[r])] \notin PipelineOps

\* C15: no step is retried: each external operation is invoked at most once
\* per request, no pipeline step runs after the first failed step, and each
\* request gets exactly one response.
C15_NoRetry == []C15_AtMostOnce /\ [][C15_AfterAnswer]_vars

\* The put failed after eight successful steps, and the handler has returned.
C15_Witness ==
  /\ Returned("r1")
  /\ "PutObject.err" \in Ops("r1")
  /\ response["r1"] = "StatusInternalServerError"

\* C16: when the put succeeds and the update fails, the request is answered
\* InternalError, the object stays in the store and the record keeps the
\* reference it had.
C16_StoredButUnlinked ==
  \A r \in Reqs :
    "UpdateVideo.err" \in Ops(r)
      => /\ "PutObject" \in Ops(r)
         /\ response[r] = "StatusInternalServerError"
         /\ loc[r].key \in bucket
         /\ db = InitDB
         /\ db[loc[r].videoID].VideoURL # URLOf(loc[r].key)

\* The update failed and the handler has returned; the object is stored.
C16_Witness ==
  /\ Returned("r1")
  /\ "UpdateVideo.err" \in Ops("r1")
  /\ bucket = {loc["r1"].key}
  /\ disk = {}

\* x occurs in s, and before any y.
Before(s, x, y) == IndexOf(s, x) > 0 /\ (IndexOf(s, y) = 0 \/ IndexOf(s, x) < IndexOf(s, y))

\* C17: on every exit path on which both files exist, the ".processing"
\* file is deleted before the staged file, and each handle is closed before
\* its file is deleted.
C17_ReverseOrderCleanup ==
  \A r \in Reqs :
    (Returned(r) /\ "CreateTemp" \in Ops(r))
      => /\ Before(trace[r], "temp.Close", "os.Remove(temp.Name())")
         /\ "os.Remove(temp.Name())" \in Ops(r)
         /\ loc[r].ffmpeg.statSize >= 0
              => /\ Before(trace[r], "os.Remove(fastStart)", "os.Remove(temp.Name())")
                 /\ "os.Open" \in Ops(r) => Before(trace[r], "processedFile.Close", "os.Remove(fastStart)")

\* A request holds its staged path, and the ".processing" path beside it,
\* from os.CreateTemp until its deferred os.Remove(temp.Name()) has run.
Holds(r) == loc[r].temp # NoPath /\ "os.Remove(temp.Name())" \notin Ops(r)

PathsOf(r) == IF loc[r].temp = NoPath THEN {} ELSE {loc[r].temp, ProcessingPath(loc[r].temp)}

\* The paths whose file was created, rewritten or deleted by the step.
Touched == {f.path : f \in (disk \ disk') \cup (disk' \ disk)}

\* C18: under any interleaving of concurrent uploads, two requests that hold
\* their files have distinct staged and ".processing" paths; the files a
\* request probes, remuxes, opens and puts are at its own paths; and a step
\* of a request creates, rewrites or deletes files at its own paths only,
\* never at a path another request holds. (A request counts as in flight for
\* its paths until its deferred removal of the staged file has run; a name
\* freed by it can be taken again afterwards.)
C18_DistinctPaths ==
  /\ \A r \in Reqs : \A q \in Reqs \ {r} : (Holds(r) /\ Holds(q)) => PathsOf(r) \cap PathsOf(q) = {}
  /\ \A r \in Reqs :
       Holds(r)
         => /\ Exists(disk, loc[r].temp)
            /\ loc[r].fastStart \in {NoPath, ProcessingPath(loc[r].temp)}
            /\ <<r, "processedFile">> \in open => Exists(disk, loc[r].fastStart)

C18_OwnFilesOnly ==
  \A r \in Reqs :
    trace'[r] # trace[r]
      => /\ Touched \subseteq PathsOf(r)'
         /\ \A q \in Reqs \ {r} : Holds(q) => Touched \cap PathsOf(q) = {}

Linked(r) == "PutObject" \in Ops(r) /\ "UpdateVideo" \in Ops(r)

C19_PointsAtStored ==
  \A v \in DOMAIN db :
    db[v].VideoURL # InitDB[v].VideoURL
      => \E r \in Reqs :
           /\ loc[r].videoID = v /\ PrincipalOf(r) = db[v].UserID
           /\ Linked(r)
           /\ loc[r].key \in bucket
           /\ db[v].VideoURL = s3CfDistribution \o <<"/">> \o loc[r].key

C19_LastWriter ==
  db' # db
    => \E r \in Reqs :
         /\ trace'[r] = Append(trace[r], "UpdateVideo")
         /\ "PutObject" \in Ops(r)
         /\ loc[r].key \in bucket
         /\ db'[loc[r].videoID].VideoURL = s3CfDistribution \o <<"/">> \o loc[r].key
         /\ \A v \in DOMAIN db \ {loc[r].videoID} : db'[v] = db[v]

\* C19: under any interleaving of concurrent uploads by the owner to one
\* record, a stored reference that differs from the initial one is the
\* distribution base, "/" and the key of a request whose put succeeded; the
\* record changes only in the step in which a request whose put succeeded
\* saves it, and then holds that request's reference, so a failed or running
\* request never makes it point at a key that is not stored and the last
\* request to save wins.
C19_RecordPointsAtStoredKey == []C19_PointsAtStored /\ [][C19_LastWriter]_vars

\* Both owners' uploads to v1 were stored under different keys and saved; the
\* record holds the reference of the second client's key.
C19_Witness ==
  /\ \A r \in Reqs : Returned(r) /\ loc[r].videoID = "v1" /\ Linked(r)
  /\ loc["r1"].key # loc["r2"].key
  /\ IndexOf(trace["r1"], "UpdateVideo") > 0
  /\ db["v1"].VideoURL = s3CfDistribution \o <<"/">> \o loc["r2"].key
  /\ {loc["r1"].key, loc["r2"].key} \subseteq bucket

\* ffprobe listed at least one stream and the first has height 0.
ZeroHeight(r) ==
  /\ loc[r].probe.run = "ok" /\ loc[r].probe.json = "ok"
  /\ Len(loc[r].probe.streams) >= 1
  /\ loc[r].probe.streams[1].Height = 0

\* C20: when the first stream of the probe output has height 0, the probe does
\* not fail: the ratio is "other", the remux is the next step, an answer of
\* InternalError comes from a later step only, and the object is put under a
\* key that begins with "other/".
C20_ZeroHeightIsOther ==
  \A r \in Reqs :
    ZeroHeight(r)
      => /\ "ffprobe" \in Ops(r) /\ "ffprobe.err" \notin Ops(r)
         /\ loc[r].ratio = "other" /\ loc[r].prefix = "other"
         /\ pc[r] = "Remux" \/ Ops(r) \cap RemuxOps # {}
         /\ response[r] # "none"
              => \/ response[r] = "StatusOK"
                 \/ Ops(r) \cap {"ffmpeg.err", "os.Open.err", "PutObject.err", "UpdateVideo.err"} # {}
         /\ HasPut(r) => KeyHasForm(loc[r].key, <<"o", "t", "h", "e", "r">>, loc[r].randBytes)
         /\ "PutObject" \in Ops(r) => loc[r].key \in bucket

\* An upload whose first stream has no geometry was stored under "other/" and
\* answered OK.
C20_Witness ==
  /\ Returned("r1") /\ response["r1"] = "StatusOK"
  /\ loc["r1"].probe.streams[1] = Stream(0, 0)
  /\ SubSeq(loc["r1"].key, 1, 6) = <<"o", "t", "h", "e", "r", "/">>
  /\ loc["r1"].key \in bucket
  /\ db["v1"].VideoURL = s3CfDistribution \o <<"/">> \o loc["r1"].key

====
